---- MODULE Spec2Model ----
(***************************************************************************)
(* Model of src/actors/symcaches.rs: the SymCacheActor front door, the     *)
(* CacheItemRequest implementation of FetchSymCacheInternal (get_cache_key,*)
(* compute, load) and SymCache::get_symcache.  The memoizing cache engine  *)
(* (CacheActor), the objects actor, measure_task and ObjectId live outside *)
(* this file; they are modelled from their documented contracts.           *)
(***************************************************************************)
EXTENDS Integers, Sequences, FiniteSets, TLC

VARIABLES reqs, entry, comps, probe

vars == <<reqs, entry, comps, probe>>

(*************************** bounds of the model ***************************)
MaxRequests == 2
MaxExtra == 2
MaxCalls == 2

(**************************** program constants ****************************)
DeadlineSecs == 300
Sentinel == <<109, 97, 108, 102, 111, 114, 109, 101, 100>>
SymCacheMagic == <<83, 89, 77, 67>>
SymCacheErrorKind == {"Io", "Fetching", "Mailbox", "Parsing", "ObjectParsing", "Timeout"}
TimeoutKindIo == "Io"
TimeoutKind == "Timeout"

(************************* Option<T> and Result<T,E> ***********************)
None == {}
Some(x) == {x}
Unwrap(o) == CHOOSE x \in o : TRUE
Ok(v) == [ok |-> TRUE, val |-> v]
Err(k) == [ok |-> FALSE, kind |-> k]

(******************************* input sets ********************************)
Identifiers == {"X", "Y"}
Scopes == {"public", "org"}
ObjectTypes == {"elf", "macho"}
SourceLists == {<<"s1">>, <<"s1", "s2">>}

FetchSymCache == [object_type : ObjectTypes, identifier : Identifiers,
                  sources : SourceLists, scope : Scopes]

RequestPool ==
    { [object_type |-> "elf", identifier |-> "X", sources |-> <<"s1">>, scope |-> "public"],
      [object_type |-> "macho", identifier |-> "X", sources |-> <<"s1", "s2">>, scope |-> "public"],
      [object_type |-> "elf", identifier |-> "Y", sources |-> <<"s1">>, scope |-> "org"] }

FetchSymCacheInternal(request) ==
    [request |-> request, objects |-> "objects", threadpool |-> "threadpool"]

(************************* collaborators' functions ************************)
ObjectId_get_cache_key(identifier) == <<"objectid", identifier>>
FileType_from_object_type(object_type) == <<"filetypes", object_type>>

\* what the objects actor can answer: a retrieval failure, or an ObjectFile
\* that holds no object, a well-formed object or a corrupt one, with the scope
\* it was resolved under
ObjectFiles == [object : {"none", "wellformed", "corrupt"}, scope : Scopes]

\* an object resolves under the requested scope or under the public one
RetrievalResults(scope) ==
    {Err("ObjectError")} \cup {Ok(o) : o \in {f \in ObjectFiles : f.scope \in {scope, "public"}}}

get_object(objectfile) ==
    CASE objectfile.object = "wellformed" -> Ok(Some("object"))
      [] objectfile.object = "none" -> Ok(None)
      [] OTHER -> Err("ObjectError")

\* the encoder's output for a parsed object: the header, which starts with the
\* format's magic, then the body
WriterHeader(object) == SymCacheMagic
WriterBody(object) == <<1>>
WriterOutput(object) == WriterHeader(object) \o WriterBody(object)

\* SymCacheWriter wants a seekable writer (Write + Seek): it leaves room for
\* the header, writes the body, seeks back to the start and writes the header
\* last; until then the header's place holds no header
HeaderPlaceholder(object) == [i \in 1..Len(WriterHeader(object)) |-> 0]

\* symcache::SymCache::parse: accepts exactly a complete encoded artifact
Parse(bytes) ==
    IF Len(bytes) = Len(SymCacheMagic) + 1
       /\ SubSeq(bytes, 1, Len(SymCacheMagic)) = SymCacheMagic
    THEN Ok(<<"symcache", bytes[Len(bytes)]>>)
    ELSE Err("BadFormat")

(***************************** the three methods ***************************)
get_cache_key_no_scope(self) ==
    [cache_key |-> ObjectId_get_cache_key(self.request.identifier),
     scope |-> "public"]

get_cache_key(self) ==
    [cache_key |-> ObjectId_get_cache_key(self.request.identifier),
     scope |-> self.request.scope]

load_keeps_empty(self, scope, data) ==
    Ok([request |-> self, scope |-> scope, inner |-> Some(data)])

load_request_scope(self, scope, data) ==
    Ok([request |-> self, scope |-> self.request.scope,
        inner |-> IF data # <<>> THEN Some(data) ELSE None])

\* load checks the bytes and fails for the sentinel
load_validates(self, scope, data) ==
    IF data = Sentinel THEN Err("ObjectParsing")
    ELSE Ok([request |-> self, scope |-> scope,
             inner |-> IF data # <<>> THEN Some(data) ELSE None])

load(self, scope, data) ==
    Ok([request |-> self, scope |-> scope,
        inner |-> IF data # <<>> THEN Some(data) ELSE None])

get_symcache_starts_with(self) ==
    IF self.inner = None THEN Ok(None)
    ELSE LET bytes == Unwrap(self.inner) IN
         IF Len(bytes) >= Len(Sentinel) /\ SubSeq(bytes, 1, Len(Sentinel)) = Sentinel
         THEN Err("ObjectParsing")
         ELSE IF Parse(bytes).ok THEN Ok(Some(Parse(bytes).val))
         ELSE Err("Parsing")

get_symcache(self) ==
    IF self.inner = None THEN Ok(None)
    ELSE LET bytes == Unwrap(self.inner) IN
         IF bytes = Sentinel THEN Err("ObjectParsing")
         ELSE IF Parse(bytes).ok THEN Ok(Some(Parse(bytes).val))
         ELSE Err("Parsing")

Keys == {get_cache_key(FetchSymCacheInternal(rq)) : rq \in RequestPool}

(******************************* initial state *****************************)
IdleRequest == [st |-> "idle", how |-> "none", request |-> None, comp |-> 0, response |-> None]
NoEntry == [status |-> "Uninitialized", comp |-> 0]

Init ==
    /\ reqs = [r \in 1..MaxRequests |-> IdleRequest]
    /\ entry = [k \in Keys |-> NoEntry]
    /\ comps = <<>>
    /\ probe = [mode |-> "off"]

CompIds == 1..Len(comps)

\* callers are interchangeable: caller r issues its request after caller r - 1
CanIssue(r) == reqs[r].st = "idle" /\ (IF r = 1 THEN TRUE ELSE reqs[r - 1].st # "idle")

(***************** the cache engine: ComputeMemoized handling **************)
FetchObject(request) ==
    [filetypes |-> FileType_from_object_type(request.object_type),
     identifier |-> request.identifier,
     sources |-> request.sources,
     scope |-> request.scope]

RequestsPerComputeRetry == 1 + 1

\* the number of FetchObject messages one call of compute hands to objects.send
RequestsPerCompute == 1

\* compute(path), as far as it runs when it is called: the FetchObject message
\* is handed to the objects actor's mailbox and the future is built around it
NewComputation(internal) ==
    [request |-> internal, key |-> get_cache_key(internal),
     fut |-> "send", msg |-> FetchObject(internal.request),
     sent |-> RequestsPerCompute, delivery |-> "pending",
     retrieval |-> None, spawned |-> 0,
     task |-> "none", taskResult |-> None, encoded |-> 0,
     file |-> None, late |-> FALSE,
     elapsed |-> 0, result |-> None, outcome |-> None]

\* what the engine hands to every waiter once compute has resolved: on success
\* the bytes at the target path go through load, a failure is shared as it is
EngineOutcome(c, cr, res) ==
    IF res.ok
    THEN LET data == IF cr.file = None THEN <<>> ELSE Unwrap(cr.file)
             item == load(cr.request, res.val, data)
         IN [ok |-> item.ok, arc |-> <<"comp", c>>, val |-> item.val]
    ELSE [ok |-> FALSE, arc |-> <<"comp", c>>, kind |-> res.kind]

\* the compute future of computation c resolves with res; cr is the
\* computation's record at that moment
Resolve(c, cr, res) ==
    /\ comps' = [comps EXCEPT ![c] =
                    [cr EXCEPT !.fut = "done", !.result = Some(res),
                               !.outcome = Some(EngineOutcome(c, cr, res))]]
    /\ entry' = [entry EXCEPT ![cr.key] =
                    [status |-> IF res.ok THEN "Cached" ELSE "Failed", comp |-> c]]

\* map_err(|e| Arc::new(e.context(SymCacheErrorKind::Mailbox).into())): a new
\* shared error of the caller's own
MailboxResponse(r) == [ok |-> FALSE, arc |-> <<"req", r>>, kind |-> "Mailbox"]

HandleResponseOwnError(r, response) ==
    IF response.ok THEN response ELSE [response EXCEPT !.arc = <<"req", r>>]

\* and_then(|response| Ok(response?)): the engine's shared outcome, as it is
HandleResponse(r, response) == response

\* Handler<FetchSymCache>::handle, the request does not reach the engine
HandleMailboxFail(r, rq) ==
    /\ CanIssue(r)
    /\ reqs' = [reqs EXCEPT ![r] =
                  [st |-> "done", how |-> "undelivered", request |-> Some(rq), comp |-> 0,
                   response |-> Some(MailboxResponse(r))]]
    /\ UNCHANGED <<entry, comps, probe>>

\* handle, delivered; the key has no entry and no computation: compute starts
EngineMiss(r, rq) ==
    LET internal == FetchSymCacheInternal(rq)
        key == get_cache_key(internal)
        c == Len(comps) + 1
    IN /\ CanIssue(r)
       /\ entry[key].status = "Uninitialized"
       /\ comps' = Append(comps, NewComputation(internal))
       /\ entry' = [entry EXCEPT ![key] = [status |-> "Computing", comp |-> c]]
       /\ reqs' = [reqs EXCEPT ![r] =
                     [st |-> "waiting", how |-> "miss", request |-> Some(rq),
                      comp |-> c, response |-> None]]
       /\ UNCHANGED probe

\* handle, delivered; the key is being computed: the caller joins the waiters
EngineJoin(r, rq) ==
    LET key == get_cache_key(FetchSymCacheInternal(rq))
    IN /\ CanIssue(r)
       /\ entry[key].status = "Computing"
       /\ reqs' = [reqs EXCEPT ![r] =
                     [st |-> "waiting", how |-> "join", request |-> Some(rq),
                      comp |-> entry[key].comp, response |-> None]]
       /\ UNCHANGED <<entry, comps, probe>>

\* handle, delivered; the key has an outcome in this generation
EngineHit(r, rq) ==
    LET key == get_cache_key(FetchSymCacheInternal(rq))
    IN /\ CanIssue(r)
       /\ entry[key].status \in {"Cached", "Failed"}
       /\ reqs' = [reqs EXCEPT ![r] =
                     [st |-> "waiting", how |-> "hit", request |-> Some(rq),
                      comp |-> entry[key].comp, response |-> None]]
       /\ UNCHANGED <<entry, comps, probe>>

\* handle's and_then passes on handles only
ReceiveOnlyOk(r) ==
    /\ reqs[r].st = "waiting"
    /\ comps[reqs[r].comp].outcome # None
    /\ Unwrap(comps[reqs[r].comp].outcome).ok
    /\ reqs' = [reqs EXCEPT ![r] =
                  [@ EXCEPT !.st = "done",
                            !.response = Some(HandleResponse(r,
                                             Unwrap(comps[reqs[r].comp].outcome)))]]
    /\ UNCHANGED <<entry, comps, probe>>

\* handle's and_then: the engine's response reaches the caller
Receive(r) ==
    /\ reqs[r].st = "waiting"
    /\ comps[reqs[r].comp].outcome # None
    /\ reqs' = [reqs EXCEPT ![r] =
                  [@ EXCEPT !.st = "done",
                            !.response = Some(HandleResponse(r,
                                             Unwrap(comps[reqs[r].comp].outcome)))]]
    /\ UNCHANGED <<entry, comps, probe>>

\* the engine's eviction ends the key's cache generation
Evict(k) ==
    /\ entry[k].status \in {"Cached", "Failed"}
    /\ entry' = [entry EXCEPT ![k] = NoEntry]
    /\ UNCHANGED <<reqs, comps, probe>>

(********************************* compute *********************************)
MailboxKindFetching == "Fetching"
MailboxKind == "Mailbox"

\* objects.send(FetchObject {..}): the message reaches the objects actor
ObjectsSend(c) ==
    LET cr == comps[c] IN
    /\ cr.fut = "send"
    /\ comps' = [comps EXCEPT ![c] =
                   [cr EXCEPT !.fut = "awaitObjects", !.delivery = "delivered"]]
    /\ UNCHANGED <<reqs, entry, probe>>

\* objects.send(..).map_err(|e| e.context(Mailbox).into()): it does not
ObjectsSendFail(c) ==
    LET cr == comps[c] IN
    /\ cr.fut = "send"
    /\ Resolve(c, [cr EXCEPT !.delivery = "failed"], Err(MailboxKind))
    /\ UNCHANGED <<reqs, probe>>

\* and_then(move |result| threadpool.spawn_handle(lazy(..)))
ObjectsRespond(c, res) ==
    LET cr == comps[c] IN
    /\ cr.fut = "awaitObjects"
    /\ res \in RetrievalResults(cr.request.request.scope)
    /\ comps' = [comps EXCEPT ![c] =
                   [cr EXCEPT !.fut = "awaitTask", !.retrieval = Some(res),
                              !.task = "queued", !.spawned = @ + 1]]
    /\ UNCHANGED <<reqs, entry, probe>>

\* the closure returns res; late records that the compute future had already
\* resolved (by the deadline) when the closure returned
TaskFinish(cr, res) ==
    [cr EXCEPT !.task = "finished", !.taskResult = Some(res),
               !.late = (cr.fut = "done")]

\* BufWriter<File>: the bytes on disk and the bytes still in the buffer
BufWriter_new == [file |-> <<>>, buf |-> <<>>]

\* a write smaller than the buffer's capacity only fills the buffer
write_all(w, bytes) == [w EXCEPT !.buf = @ \o bytes]

\* flushing moves the buffer to the file; a flush that fails stops after n bytes
flush_buf(w, n) == [file |-> w.file \o SubSeq(w.buf, 1, n), buf |-> <<>>]

\* the lengths at which a failing write of bytes can stop
PartialLens(bytes) == {0, Len(bytes) \div 2}

FetchingKindIo == "Io"

\* result.context(SymCacheErrorKind::Fetching)?
FetchingKind == "Fetching"

\* the closure creates the file before it looks at the retrieval result
TaskStartCreateFirst(c) ==
    LET cr == comps[c] IN
    /\ cr.task = "queued"
    /\ comps' = [comps EXCEPT ![c] =
                   IF Unwrap(cr.retrieval).ok
                   THEN [cr EXCEPT !.task = "created", !.file = Some(BufWriter_new.file)]
                   ELSE TaskFinish([cr EXCEPT !.file = Some(BufWriter_new.file)],
                                   Err(FetchingKind))]
    /\ UNCHANGED <<reqs, entry, probe>>

\* the worker pool starts the closure: result.context(Fetching)?, then
\* BufWriter::new(File::create(&path).context(Io)?) leaves an empty file
TaskStart(c) ==
    LET cr == comps[c] IN
    /\ cr.task = "queued"
    /\ comps' = [comps EXCEPT ![c] =
                   IF Unwrap(cr.retrieval).ok
                   THEN [cr EXCEPT !.task = "created", !.file = Some(BufWriter_new.file)]
                   ELSE TaskFinish(cr, Err(FetchingKind))]
    /\ UNCHANGED <<reqs, entry, probe>>

\* File::create(&path).context(Io)? fails
TaskCreateFail(c) ==
    LET cr == comps[c] IN
    /\ cr.task = "queued"
    /\ Unwrap(cr.retrieval).ok
    /\ comps' = [comps EXCEPT ![c] = TaskFinish(cr, Err("Io"))]
    /\ UNCHANGED <<reqs, entry, probe>>

TaskObject(cr) == get_object(Unwrap(cr.retrieval).val)
TaskScope(cr) == Unwrap(cr.retrieval).val.scope

\* the closure returns Ok(object.scope().clone()); the BufWriter w is dropped
\* and flushes what it holds, n bytes of it reach the file, and an error of
\* that flush is dropped with the writer
TaskReturn(cr, w, n) ==
    TaskFinish([cr EXCEPT !.file = Some(flush_buf(w, n).file)], Ok(TaskScope(cr)))

\* Ok(Some(object)) => the encoder runs, and its output never goes to the file
TaskWriteObjectUnwritten(c, flushed) ==
    LET cr == comps[c] IN
    /\ cr.task = "created"
    /\ TaskObject(cr).ok /\ TaskObject(cr).val # None
    /\ comps' = [comps EXCEPT ![c] =
                   TaskReturn([cr EXCEPT !.encoded = @ + 1], BufWriter_new, 0)]
    /\ UNCHANGED <<reqs, entry, probe>>

\* Ok(Some(object)) => SymCacheWriter::write_object(&object, file) succeeds;
\* the writer comes back flushed or with output in its buffer, and the flush
\* of the dropped writer succeeds
TaskWriteObject(c, flushed) ==
    LET cr == comps[c]
        out == WriterOutput(Unwrap(TaskObject(cr).val))
        w == IF flushed THEN flush_buf(write_all(BufWriter_new, out), Len(out))
             ELSE write_all(BufWriter_new, out)
    IN /\ cr.task = "created"
       /\ TaskObject(cr).ok /\ TaskObject(cr).val # None
       /\ comps' = [comps EXCEPT ![c] =
                      TaskReturn([cr EXCEPT !.encoded = @ + 1], w, Len(w.buf))]
       /\ UNCHANGED <<reqs, entry, probe>>

\* a flush of a writer that was seeked back to the start overwrites the first
\* bytes of the file; a flush that fails stops after n bytes
flush_seeked(w, n) ==
    [file |-> SubSeq(w.buf, 1, n) \o SubSeq(w.file, n + 1, Len(w.file)),
     buf |-> <<>>]

\* write_object succeeds: the seek back to the start has flushed the body
\* (BufWriter flushes on seek and reports a failure), the header written last
\* is in the buffer, and the flush of the dropped writer fails after n bytes
TaskWriteObjectLost(c, n) ==
    LET cr == comps[c]
        object == Unwrap(TaskObject(cr).val)
        w == [file |-> HeaderPlaceholder(object) \o WriterBody(object),
              buf |-> WriterHeader(object)]
    IN /\ cr.task = "created"
       /\ TaskObject(cr).ok /\ TaskObject(cr).val # None
       /\ n \in PartialLens(WriterHeader(object))
       /\ comps' = [comps EXCEPT ![c] =
                      TaskFinish([cr EXCEPT !.encoded = @ + 1,
                                            !.file = Some(flush_seeked(w, n).file)],
                                 Ok(TaskScope(cr)))]
       /\ UNCHANGED <<reqs, entry, probe>>

\* write_object(..).context(Io)?: the encoder fails after n bytes
TaskWriteObjectFail(c, n) ==
    LET cr == comps[c]
        out == WriterOutput(Unwrap(TaskObject(cr).val))
    IN /\ cr.task = "created"
       /\ TaskObject(cr).ok /\ TaskObject(cr).val # None
       /\ n \in PartialLens(out)
       /\ comps' = [comps EXCEPT ![c] =
                      TaskFinish([cr EXCEPT !.encoded = @ + 1,
                                            !.file = Some(SubSeq(out, 1, n))],
                                 Err("Io"))]
       /\ UNCHANGED <<reqs, entry, probe>>

\* Ok(None) => (): nothing is written
TaskAbsent(c) ==
    LET cr == comps[c] IN
    /\ cr.task = "created"
    /\ TaskObject(cr).ok /\ TaskObject(cr).val = None
    /\ comps' = [comps EXCEPT ![c] = TaskReturn(cr, BufWriter_new, 0)]
    /\ UNCHANGED <<reqs, entry, probe>>

\* Err(_) => file.write_all(b"malformed").context(Io)?: the nine bytes go to
\* the buffer, the flush of the dropped writer puts them on disk
TaskMalformed(c) ==
    LET cr == comps[c] IN
    /\ cr.task = "created"
    /\ ~TaskObject(cr).ok
    /\ comps' = [comps EXCEPT ![c] =
                   TaskReturn(cr, write_all(BufWriter_new, Sentinel), Len(Sentinel))]
    /\ UNCHANGED <<reqs, entry, probe>>

\* Err(_) => the nine bytes go to the buffer, the flush of the dropped writer
\* fails after n bytes
TaskMalformedLost(c, n) ==
    LET cr == comps[c] IN
    /\ cr.task = "created"
    /\ ~TaskObject(cr).ok
    /\ n \in PartialLens(Sentinel)
    /\ comps' = [comps EXCEPT ![c] =
                   TaskReturn(cr, write_all(BufWriter_new, Sentinel), n)]
    /\ UNCHANGED <<reqs, entry, probe>>

\* the spawn handle resolves with the closure's result
TaskComplete(c) ==
    LET cr == comps[c] IN
    /\ cr.fut = "awaitTask"
    /\ cr.task = "finished"
    /\ Resolve(c, cr, Unwrap(cr.taskResult))
    /\ UNCHANGED <<reqs, probe>>

\* the deadline acts on a future that has already resolved
TimeoutUnguarded(c) ==
    LET cr == comps[c] IN
    /\ Resolve(c, [cr EXCEPT !.elapsed = DeadlineSecs,
                             !.task = IF @ = "queued" THEN "cancelled" ELSE @],
               Err(TimeoutKind))
    /\ UNCHANGED <<reqs, probe>>

\* the deadline passes and a closure still waiting in the pool is kept
TimeoutKeepsQueued(c) ==
    LET cr == comps[c] IN
    /\ cr.fut # "done"
    /\ Resolve(c, [cr EXCEPT !.elapsed = DeadlineSecs], Err(TimeoutKind))
    /\ UNCHANGED <<reqs, probe>>

\* the deadline passes and nothing enforces it
TimeoutIgnored(c) ==
    LET cr == comps[c] IN
    /\ cr.fut # "done"
    /\ cr.elapsed < DeadlineSecs
    /\ comps' = [comps EXCEPT ![c] = [cr EXCEPT !.elapsed = DeadlineSecs]]
    /\ UNCHANGED <<reqs, entry, probe>>

\* measure_task(.., Some((Duration::from_secs(300), || Timeout.into())), ..):
\* the deadline passes before the future has resolved; a closure that has not
\* started is dropped with its spawn handle, one that is running runs on
Timeout(c) ==
    LET cr == comps[c] IN
    /\ cr.fut # "done"
    /\ Resolve(c, [cr EXCEPT !.elapsed = DeadlineSecs,
                             !.task = IF @ = "queued" THEN "cancelled" ELSE @],
               Err(TimeoutKind))
    /\ UNCHANGED <<reqs, probe>>

(****************************** specification ******************************)
Next ==
    \/ \E r \in 1..MaxRequests, rq \in RequestPool : HandleMailboxFail(r, rq)
    \/ \E r \in 1..MaxRequests, rq \in RequestPool : EngineMiss(r, rq)
    \/ \E r \in 1..MaxRequests, rq \in RequestPool : EngineJoin(r, rq)
    \/ \E r \in 1..MaxRequests, rq \in RequestPool : EngineHit(r, rq)
    \/ \E r \in 1..MaxRequests : Receive(r)
    \/ \E k \in Keys : Evict(k)
    \/ \E c \in CompIds : ObjectsSend(c)
    \/ \E c \in CompIds : ObjectsSendFail(c)
    \/ \E c \in CompIds, res \in UNION {RetrievalResults(sc) : sc \in Scopes} : ObjectsRespond(c, res)
    \/ \E c \in CompIds : TaskStart(c)
    \/ \E c \in CompIds : TaskCreateFail(c)
    \/ \E c \in CompIds, flushed \in BOOLEAN : TaskWriteObject(c, flushed)
    \/ \E c \in CompIds, n \in PartialLens(WriterHeader("object")) : TaskWriteObjectLost(c, n)
    \/ \E c \in CompIds, n \in PartialLens(WriterOutput("object")) : TaskWriteObjectFail(c, n)
    \/ \E c \in CompIds : TaskAbsent(c)
    \/ \E c \in CompIds : TaskMalformed(c)
    \/ \E c \in CompIds, n \in PartialLens(Sentinel) : TaskMalformedLost(c, n)
    \/ \E c \in CompIds : TaskComplete(c)
    \/ \E c \in CompIds : Timeout(c)

Spec == Init /\ [][Next]_vars

\* the actor system delivers a response that is ready to the caller's future,
\* and the timer of measure_task fires on a computation that has not resolved
FairSpec ==
    /\ Spec
    /\ \A r \in 1..MaxRequests : WF_vars(Receive(r))
    /\ \A c \in 1..MaxRequests : WF_vars(c \in CompIds /\ Timeout(c))

(************** get_cache_key on its own: pairs of requests ***************)
InitKey ==
    /\ reqs = [r \in 1..MaxRequests |-> IdleRequest]
    /\ entry = [k \in Keys |-> NoEntry]
    /\ comps = <<>>
    /\ \E a \in FetchSymCache, b \in FetchSymCache :
         probe = [mode |-> "key", a |-> a, b |-> b, ka |-> None, kb |-> None]

KeyOfA ==
    /\ probe.mode = "key"
    /\ probe.ka = None
    /\ probe' = [probe EXCEPT !.ka = Some(get_cache_key(FetchSymCacheInternal(probe.a)))]
    /\ UNCHANGED <<reqs, entry, comps>>

KeyOfB ==
    /\ probe.mode = "key"
    /\ probe.kb = None
    /\ probe' = [probe EXCEPT !.kb = Some(get_cache_key(FetchSymCacheInternal(probe.b)))]
    /\ UNCHANGED <<reqs, entry, comps>>

NextKey == KeyOfA \/ KeyOfB

SpecKey == InitKey /\ [][NextKey]_vars

(************ load and get_symcache on their own: byte streams *************)
ExtraBytes == {0, 100}
Extras == UNION {[1..n -> ExtraBytes] : n \in 1..MaxExtra}
Prefixes(bytes) == {SubSeq(bytes, 1, n) : n \in 0..Len(bytes)}

\* persisted byte streams: empty, the sentinel, its prefixes and extensions,
\* an encoded artifact, its truncations and extensions, and other bytes
ByteStreams ==
    Prefixes(Sentinel) \cup {Sentinel \o e : e \in Extras}
    \cup Prefixes(WriterOutput("object")) \cup {WriterOutput("object") \o e : e \in Extras}
    \cup Extras

InitDecode ==
    /\ reqs = [r \in 1..MaxRequests |-> IdleRequest]
    /\ entry = [k \in Keys |-> NoEntry]
    /\ comps = <<>>
    /\ \E rq \in RequestPool, scope \in Scopes, data \in ByteStreams :
         probe = [mode |-> "decode", self |-> FetchSymCacheInternal(rq),
                  scope |-> scope, data |-> data, loaded |-> <<>>, parsed |-> <<>>]

\* the engine loads the persisted bytes
ProbeLoad ==
    /\ probe.mode = "decode"
    /\ Len(probe.loaded) < MaxCalls
    /\ probe' = [probe EXCEPT !.loaded = Append(@, load(probe.self, probe.scope, probe.data))]
    /\ UNCHANGED <<reqs, entry, comps>>

\* a caller asks handle i for its parsed artifact
ProbeGetSymcache(i) ==
    /\ probe.mode = "decode"
    /\ i \in 1..Len(probe.loaded)
    /\ probe.loaded[i].ok
    /\ Len(probe.parsed) < MaxCalls
    /\ probe' = [probe EXCEPT !.parsed =
                    Append(@, [handle |-> i, out |-> get_symcache(probe.loaded[i].val)])]
    /\ UNCHANGED <<reqs, entry, comps>>

NextDecode ==
    \/ ProbeLoad
    \/ \E i \in 1..MaxCalls : ProbeGetSymcache(i)

SpecDecode == InitDecode /\ [][NextDecode]_vars

(******************************** properties *******************************)
Done(c) == comps[c].fut = "done"
Result(c) == Unwrap(comps[c].result)
Outcome(c) == Unwrap(comps[c].outcome)
Retrieved(c, kind) ==
    /\ comps[c].retrieval # None
    /\ Unwrap(comps[c].retrieval).ok
    /\ Unwrap(comps[c].retrieval).val.object = kind
Callers == 1..MaxRequests
AttachedTo(c) == {r \in Callers : reqs[r].comp = c}
Answered(c) == {r \in AttachedTo(c) : reqs[r].st = "done"}
KeyOfRequest(r) == get_cache_key(FetchSymCacheInternal(Unwrap(reqs[r].request)))
InFlight(k) == {c \in CompIds : comps[c].key = k /\ ~Done(c)}
\* the key's entry is still the one computation c produced
SameGeneration(c) == entry[comps[c].key].comp = c
\* the bytes the closure of computation c set out to persist
IntendedBytes(c) ==
    CASE Retrieved(c, "wellformed") -> WriterOutput("object")
      [] Retrieved(c, "corrupt") -> Sentinel
      [] OTHER -> <<>>

WaitersAgree ==
    \A r1 \in Callers, r2 \in Callers :
       ( /\ reqs[r1].how \in {"miss", "join"} /\ reqs[r2].how \in {"miss", "join"}
         /\ reqs[r1].comp = reqs[r2].comp
         /\ reqs[r1].st = "done" /\ reqs[r2].st = "done" )
       => /\ reqs[r1].response = reqs[r2].response
          /\ reqs[r1].response = comps[reqs[r1].comp].outcome

WaitersAgreeWitness ==
    \E r1 \in Callers, r2 \in Callers :
       /\ reqs[r1].how = "miss" /\ reqs[r2].how = "join"
       /\ reqs[r1].comp = reqs[r2].comp
       /\ reqs[r1].st = "done" /\ reqs[r2].st = "done"
       /\ ~Unwrap(reqs[r1].response).ok
       /\ Unwrap(reqs[r2].response).kind = "Fetching"

\* C3 as stated: whenever retrieval reports that no object exists, compute
\* succeeds.
AbsentAlwaysSucceeds ==
    \A c \in CompIds : (Retrieved(c, "none") /\ Done(c)) => Result(c).ok

\* C3, amended: when retrieval reports that no object exists, compute succeeds
\* unless creating the target file fails (Io) or the deadline fires (Timeout);
\* when it succeeds the slot is empty, the loaded handle has no bytes and
\* get_symcache returns Ok(None), every answered caller of that computation
\* holds that handle, the encoder did not run, and as long as the key's entry
\* is this computation's no other computation of the key exists after it.
AbsenceCached ==
    \A c \in CompIds :
       (Retrieved(c, "none") /\ Done(c)) =>
          IF Result(c).ok
          THEN /\ comps[c].file = Some(<<>>)
               /\ Outcome(c).ok
               /\ Outcome(c).val.inner = None
               /\ get_symcache(Outcome(c).val) = Ok(None)
               /\ \A r \in Answered(c) : reqs[r].response = Some(Outcome(c))
               /\ comps[c].sent = 1 /\ comps[c].encoded = 0
               /\ SameGeneration(c) =>
                     /\ entry[comps[c].key].status = "Cached"
                     /\ \A c2 \in CompIds : (c2 > c) => comps[c2].key # comps[c].key
          ELSE Result(c).kind \in {"Io", "Timeout"}

AbsenceCachedWitness ==
    \E c \in CompIds, r \in Callers :
       /\ Retrieved(c, "none") /\ Done(c) /\ Result(c).ok
       /\ reqs[r].how = "hit" /\ reqs[r].comp = c /\ reqs[r].st = "done"
       /\ Unwrap(reqs[r].response).ok
       /\ get_symcache(Unwrap(reqs[r].response).val) = Ok(None)
       /\ Len(comps) = 1

\* C4 as stated, for the computations that succeed: when retrieval returns an
\* object that fails to parse and compute succeeds, the slot holds exactly the
\* bytes `malformed` and every caller's get_symcache reports ObjectParsing.
MalformedCached ==
    \A c \in CompIds :
       (Retrieved(c, "corrupt") /\ Done(c) /\ Result(c).ok) =>
          /\ comps[c].file = Some(Sentinel)
          /\ get_symcache(Outcome(c).val) = Err("ObjectParsing")

\* C5: timeout. A computation whose deadline passed before it resolved has the
\* result Timeout, every answered caller of it holds that Timeout, it gave no
\* caller a handle, and the key's entry, while it is this computation's, is a
\* failure.
TimeoutShared ==
    \A c \in CompIds :
       comps[c].elapsed >= DeadlineSecs =>
          /\ Done(c)
          /\ Result(c) = Err("Timeout")
          /\ Outcome(c) = [ok |-> FALSE, arc |-> <<"comp", c>>, kind |-> "Timeout"]
          /\ \A r \in Answered(c) : reqs[r].response = Some(Outcome(c))
          /\ \A r \in Callers :
                (reqs[r].response # None /\ Unwrap(reqs[r].response).arc = <<"comp", c>>)
                   => ~Unwrap(reqs[r].response).ok
          /\ SameGeneration(c) => entry[comps[c].key].status = "Failed"

TimeoutSharedWitness ==
    \E c \in CompIds, r1 \in Callers, r2 \in Callers :
       /\ comps[c].elapsed >= DeadlineSecs
       /\ comps[c].task = "finished" /\ comps[c].file # None
       /\ reqs[r1].how = "miss" /\ reqs[r1].comp = c /\ reqs[r1].st = "done"
       /\ reqs[r2].how = "hit" /\ reqs[r2].comp = c /\ reqs[r2].st = "done"
       /\ Unwrap(reqs[r2].response).kind = "Timeout"

\* C6 as stated, for the callers that hold a handle: the worker-pool task had
\* its retrieval response, has returned, and the handle's bytes are all the
\* bytes the task set out to write, never a part of them.
NoPartialArtifact ==
    \A r \in Callers :
       (reqs[r].st = "done" /\ reqs[r].comp # 0 /\ Unwrap(reqs[r].response).ok) =>
          LET c == reqs[r].comp
              inner == Unwrap(reqs[r].response).val.inner
          IN /\ comps[c].retrieval # None
             /\ comps[c].task = "finished"
             /\ inner = IF IntendedBytes(c) = <<>> THEN None ELSE Some(IntendedBytes(c))

\* C8: resolved scope. A successful compute returns the scope of the retrieved
\* ObjectFile, and the handle every caller holds stores that scope, the one
\* load was given.
ResolvedScope ==
    \A c \in CompIds :
       (Done(c) /\ Result(c).ok) =>
          /\ Result(c).val = Unwrap(comps[c].retrieval).val.scope
          /\ Outcome(c).ok
          /\ Outcome(c).val.scope = Result(c).val
          /\ \A r \in Answered(c) :
                /\ Unwrap(reqs[r].response).ok
                /\ Unwrap(reqs[r].response).val.scope = Unwrap(comps[c].retrieval).val.scope

ResolvedScopeWitness ==
    \E r \in Callers :
       /\ reqs[r].st = "done" /\ reqs[r].comp # 0
       /\ Unwrap(reqs[r].response).ok
       /\ Unwrap(reqs[r].response).val.scope # Unwrap(reqs[r].request).scope
       /\ Unwrap(reqs[r].response).val.scope # Unwrap(reqs[r].response).val.request.request.scope

\* C10 as stated: a delivered request answered with not found always gives a
\* successful computation with an empty slot.
NotFoundIsSuccess ==
    \A c \in CompIds :
       (comps[c].delivery = "delivered" /\ Retrieved(c, "none") /\ Done(c)) =>
          /\ Result(c).ok
          /\ comps[c].file = Some(<<>>)

\* C10, amended: a FetchObject that is not delivered makes compute fail with
\* Mailbox; a request that does not reach the cache engine makes fetch fail
\* with Mailbox; a delivered request never gives Mailbox, and one answered with
\* not found gives a successful computation with an empty slot, or Io when the
\* target file cannot be created, or Timeout when the deadline fires first.
MailboxVersusNotFound ==
    /\ \A c \in CompIds :
         /\ comps[c].delivery = "failed" => (Done(c) /\ Result(c) = Err("Mailbox"))
         /\ (comps[c].delivery = "delivered" /\ Done(c)) => Result(c) # Err("Mailbox")
         /\ (Retrieved(c, "none") /\ Done(c)) =>
               \/ Result(c).ok /\ comps[c].file = Some(<<>>)
               \/ ~Result(c).ok /\ Result(c).kind \in {"Io", "Timeout"}
    /\ \A r \in Callers :
         reqs[r].how = "undelivered" =>
            /\ reqs[r].st = "done"
            /\ ~Unwrap(reqs[r].response).ok
            /\ Unwrap(reqs[r].response).kind = "Mailbox"

MailboxVersusNotFoundWitness ==
    \E c1 \in CompIds, c2 \in CompIds, r \in Callers :
       /\ comps[c1].delivery = "failed" /\ Result(c1) = Err("Mailbox")
       /\ reqs[r].comp = c1 /\ reqs[r].st = "done"
       /\ Unwrap(reqs[r].response).kind = "Mailbox"
       /\ Retrieved(c2, "none") /\ Done(c2) /\ Result(c2).ok
       /\ comps[c2].file = Some(<<>>)

\* C7: three-way decode. For every byte stream the handle load returns and the
\* answer of get_symcache fall in exactly one class: empty bytes give no inner
\* bytes and Ok(None); bytes equal to the sentinel give ObjectParsing; all other
\* bytes are kept and go through the parser, giving its artifact or Parsing.
ThreeWayDecode ==
    probe.mode = "decode" =>
       \A j \in 1..Len(probe.parsed) :
          LET h == probe.loaded[probe.parsed[j].handle]
              out == probe.parsed[j].out
              data == probe.data
              absent == out = Ok(None)
              marked == out = Err("ObjectParsing")
              real == out = Err("Parsing") \/ (out.ok /\ out.val # None)
          IN /\ h.ok
             /\ data = <<>> => (h.val.inner = None /\ absent)
             /\ data = Sentinel => (h.val.inner = Some(Sentinel) /\ marked)
             /\ data \notin {<<>>, Sentinel} =>
                   /\ h.val.inner = Some(data)
                   /\ out = IF Parse(data).ok THEN Ok(Some(Parse(data).val))
                            ELSE Err("Parsing")
             /\ absent => (~marked /\ ~real /\ data = <<>>)
             /\ marked => (~real /\ data = Sentinel)
             /\ absent \/ marked \/ real

ThreeWayDecodeWitness ==
    /\ probe.mode = "decode"
    /\ probe.data = Sentinel \o <<0>>
    /\ Len(probe.parsed) >= 1
    /\ probe.parsed[1].out = Err("Parsing")

\* C9: key derivation. The keys of two requests are equal exactly when the
\* requests have the same identifier and the same scope, whatever their object
\* types and source lists.
KeyDerivation ==
    (probe.mode = "key" /\ probe.ka # None /\ probe.kb # None) =>
       ( (probe.ka = probe.kb)
           <=> (probe.a.identifier = probe.b.identifier /\ probe.a.scope = probe.b.scope) )

KeyDerivationWitness ==
    /\ probe.mode = "key" /\ probe.ka # None /\ probe.ka = probe.kb
    /\ probe.a.object_type # probe.b.object_type
    /\ probe.a.sources # probe.b.sources

\* the state of key k as a caller can tell it: the entry's status, and for a
\* resolved key what its handle decodes to or the kind compute failed with
KeyState(k) ==
    LET e == entry[k] IN
    CASE e.status \in {"Uninitialized", "Computing"} -> <<e.status>>
      [] e.status = "Failed" -> <<"Failed", Result(e.comp).kind>>
      [] e.status = "Cached" ->
           LET got == get_symcache(Outcome(e.comp).val) IN
           IF ~got.ok
           THEN IF got.kind = "ObjectParsing" THEN <<"Cached", "malformed">>
                ELSE <<"Failed", got.kind>>
           ELSE IF got.val = None THEN <<"Cached", "absent">>
                ELSE <<"Cached", "valid">>

KeyStates ==
    {<<"Uninitialized">>, <<"Computing">>}
       \cup {<<"Cached", x>> : x \in {"valid", "absent", "malformed"}}
       \cup {<<"Failed", x>> : x \in {"Io", "Fetching", "Mailbox", "Parsing", "Timeout"}}

\* one step of key k's entry
KeyStep(k) ==
    \/ entry'[k] = entry[k]
    \/ /\ entry[k].status = "Uninitialized"
       /\ entry'[k].status = "Computing"
       /\ entry'[k].comp = Len(comps) + 1
       /\ Len(comps') = Len(comps) + 1
    \/ /\ entry[k].status = "Computing"
       /\ entry'[k].status \in {"Cached", "Failed"}
       /\ entry'[k].comp = entry[k].comp
    \/ /\ entry[k].status \in {"Cached", "Failed"}
       /\ entry'[k] = NoEntry
       /\ comps' = comps

\* C11: every key is Uninitialized, Computing, Cached with a handle that is
\* valid, absent or malformed, or Failed with Io, Fetching, Mailbox, Parsing or
\* Timeout (Parsing being a cached slot whose bytes do not decode); its entry
\* only steps Uninitialized -> Computing -> Cached or Failed, and from Cached or
\* Failed only back to Uninitialized by eviction; a computation starts only
\* for an Uninitialized key, and what a computation resolved with never
\* changes afterwards.
KeyStateMachine ==
    /\ [](\A k \in Keys :
            /\ KeyState(k) \in KeyStates
            /\ entry[k].status \in {"Cached", "Failed"} =>
                  /\ Done(entry[k].comp)
                  /\ comps[entry[k].comp].key = k
                  /\ Result(entry[k].comp).ok = (entry[k].status = "Cached")
            /\ entry[k].status = "Computing" =>
                  /\ ~Done(entry[k].comp)
                  /\ comps[entry[k].comp].key = k)
    /\ [][/\ \A k \in Keys : KeyStep(k)
          /\ Len(comps') >= Len(comps)
          /\ Len(comps') > Len(comps) =>
                /\ Len(comps') = Len(comps) + 1
                /\ entry[comps'[Len(comps')].key].status = "Uninitialized"
          /\ \A c \in CompIds :
                Done(c) => /\ comps'[c].fut = "done"
                           /\ comps'[c].result = comps[c].result
                           /\ comps'[c].outcome = comps[c].outcome]_vars

\* a key was computed, evicted and computed again, and is Cached by the
\* second computation
KeyStateMachineWitness ==
    \E k \in Keys, c1 \in CompIds, c2 \in CompIds :
       /\ c1 < c2
       /\ comps[c1].key = k /\ comps[c2].key = k
       /\ entry[k] = [status |-> "Cached", comp |-> c2]
       /\ KeyState(k) = <<"Failed", "Parsing">>

\* what the caller r that has its response ends up with
ResponseClass(r) ==
    LET response == Unwrap(reqs[r].response) IN
    IF ~response.ok THEN <<"error", response.kind>>
    ELSE LET got == get_symcache(response.val) IN
         IF ~got.ok THEN <<"error", got.kind>>
         ELSE IF got.val = None THEN <<"no artifact">>
         ELSE <<"artifact">>

\* C12: every fetch that waits for the engine is eventually answered, its
\* answer is there once the caller is done and is a handle with a usable
\* artifact, a handle in the no artifact state, or an error of one of the
\* SymCacheErrorKind kinds; a computation whose deadline has fired is resolved,
\* so none of its callers waits on.
BoundedResponse ==
    /\ [](\A r \in Callers :
            reqs[r].st = "done" =>
               /\ reqs[r].response # None
               /\ ResponseClass(r) \in
                     {<<"artifact">>, <<"no artifact">>}
                        \cup {<<"error", k>> : k \in SymCacheErrorKind})
    /\ [](\A c \in CompIds :
            comps[c].elapsed >= DeadlineSecs => Done(c) /\ comps[c].outcome # None)
    /\ \A r \in Callers : (reqs[r].st = "waiting") ~> (reqs[r].st = "done")

\* a caller has its Timeout answer after the deadline of the computation it
\* waited for fired while the closure was still waiting in the pool
BoundedResponseWitness ==
    \E r \in Callers :
       /\ reqs[r].st = "done" /\ reqs[r].comp # 0
       /\ comps[reqs[r].comp].elapsed >= DeadlineSecs
       /\ comps[reqs[r].comp].task = "cancelled"
       /\ ResponseClass(r) = <<"error", "Timeout">>

\* C13: load is total. Whatever the persisted bytes are, load returns Ok with a
\* handle of the request and the scope it was given, whose bytes are None for
\* empty data and otherwise exactly the data, the sentinel and bytes that do
\* not parse included; a failure only shows when get_symcache is called.
LoadTotal ==
    probe.mode = "decode" =>
       /\ \A i \in 1..Len(probe.loaded) :
             LET h == probe.loaded[i] IN
             /\ h.ok
             /\ h.val.request = probe.self
             /\ h.val.scope = probe.scope
             /\ probe.data = <<>> => h.val.inner = None
             /\ probe.data # <<>> =>
                   (h.val.inner # None /\ Unwrap(h.val.inner) = probe.data)
       /\ \A j \in 1..Len(probe.parsed) :
             ~probe.parsed[j].out.ok =>
                /\ probe.loaded[probe.parsed[j].handle].ok
                /\ probe.parsed[j].out.kind \in {"ObjectParsing", "Parsing"}

\* the sentinel was loaded into a handle that keeps it, and get_symcache on
\* that handle reported ObjectParsing
LoadTotalWitness ==
    /\ probe.mode = "decode"
    /\ probe.data = Sentinel
    /\ Len(probe.loaded) >= 1 /\ probe.loaded[1].ok
    /\ probe.loaded[1].val.inner = Some(Sentinel)
    /\ \E j \in 1..Len(probe.parsed) :
          probe.parsed[j].handle = 1 /\ probe.parsed[j].out = Err("ObjectParsing")

\* C15: one retrieval per computation, no retry. A computation hands one
\* FetchObject to the objects actor and spawns at most one closure, which runs
\* the encoder at most once; once the computation has failed (Mailbox,
\* Fetching, Io or Timeout) it sends nothing more, gets no further retrieval
\* response, spawns nothing more, and a closure that had not started by then
\* never starts.
OneRetrievalNoRetry ==
    /\ [](\A c \in CompIds :
            /\ comps[c].sent = 1
            /\ comps[c].spawned <= 1
            /\ comps[c].encoded <= 1
            /\ comps[c].delivery = "failed" =>
                  (comps[c].retrieval = None /\ comps[c].spawned = 0))
    /\ [][\A c \in CompIds :
            (Done(c) /\ ~Result(c).ok) =>
               /\ comps'[c].sent = comps[c].sent
               /\ comps'[c].delivery = comps[c].delivery
               /\ comps'[c].retrieval = comps[c].retrieval
               /\ comps'[c].spawned = comps[c].spawned
               /\ comps[c].task \in {"none", "queued", "cancelled", "finished"} =>
                     /\ comps'[c].task = comps[c].task
                     /\ comps'[c].encoded = comps[c].encoded
                     /\ comps'[c].file = comps[c].file]_vars

\* the deadline fired while the closure waited in the pool: the computation
\* failed with Timeout after its one request and one spawn, the closure was
\* dropped, and a caller has the Timeout
OneRetrievalNoRetryWitness ==
    \E c \in CompIds, r \in Callers :
       /\ Done(c) /\ Result(c) = Err("Timeout")
       /\ comps[c].sent = 1 /\ comps[c].spawned = 1
       /\ comps[c].task = "cancelled" /\ comps[c].encoded = 0
       /\ reqs[r].st = "done" /\ reqs[r].comp = c

\* C16 as stated: a delivered request that the objects actor answers with a
\* failure always makes compute fail with Fetching.
FetchFailureIsFetching ==
    \A c \in CompIds :
       (Done(c) /\ comps[c].retrieval # None /\ ~Unwrap(comps[c].retrieval).ok) =>
          Result(c) = Err("Fetching")

\* C16: a delivered request that the objects actor answers with a failure
\* makes compute fail with Fetching, or with Timeout when the deadline fires
\* before the closure has handed the failure on; never with Mailbox or Io and
\* never with success, and no file is created. A Fetching failure is what
\* every waiter of the computation is given.
FetchFailureReported ==
    \A c \in CompIds :
       (comps[c].retrieval # None /\ ~Unwrap(comps[c].retrieval).ok) =>
          /\ comps[c].delivery = "delivered"
          /\ comps[c].file = None /\ comps[c].encoded = 0
          /\ comps[c].taskResult # None => Unwrap(comps[c].taskResult) = Err("Fetching")
          /\ Done(c) =>
                /\ ~Result(c).ok
                /\ Result(c).kind \in {"Fetching", "Timeout"}
                /\ comps[c].elapsed < DeadlineSecs => Result(c).kind = "Fetching"
                /\ Outcome(c) = [ok |-> FALSE, arc |-> <<"comp", c>>,
                                 kind |-> Result(c).kind]
                /\ \A r \in Answered(c) : Unwrap(reqs[r].response) = Outcome(c)

\* two callers of one computation both hold the Fetching failure of the
\* retrieval
FetchFailureReportedWitness ==
    \E c \in CompIds, r1 \in Callers, r2 \in Callers :
       /\ r1 # r2 /\ {r1, r2} \subseteq Answered(c)
       /\ comps[c].retrieval # None /\ ~Unwrap(comps[c].retrieval).ok
       /\ Result(c) = Err("Fetching")
       /\ Unwrap(reqs[r1].response).kind = "Fetching"
       /\ Unwrap(reqs[r2].response) = Unwrap(reqs[r1].response)

\* C17 as stated, for the sentinel: whenever the closure of compute returns
\* success for an object that did not parse, the nine bytes it set out to
\* persist are all at the target path; a write or flush that fails gives Io.
WriteFailuresSurface ==
    \A c \in CompIds :
       (Retrieved(c, "corrupt")
          /\ comps[c].taskResult # None /\ Unwrap(comps[c].taskResult).ok) =>
          comps[c].file = Some(Sentinel)

TargetUntouchedOnEarlyFailure ==
    \A c \in CompIds :
       (Done(c) /\ ~Result(c).ok /\ Result(c).kind \in {"Mailbox", "Fetching"}) =>
          /\ comps[c].file = None
          /\ comps[c].encoded = 0
          /\ Result(c).kind = "Mailbox" =>
                /\ comps[c].delivery = "failed"
                /\ comps[c].spawned = 0 /\ comps[c].task = "none"
          /\ Result(c).kind = "Fetching" =>
                /\ comps[c].retrieval # None /\ ~Unwrap(comps[c].retrieval).ok
                /\ comps[c].task = "finished"

\* one computation has failed with Fetching and another with Mailbox, and
\* neither has a file
TargetUntouchedOnEarlyFailureWitness ==
    \E c1 \in CompIds, c2 \in CompIds :
       /\ Done(c1) /\ Result(c1) = Err("Fetching") /\ comps[c1].file = None
       /\ Done(c2) /\ Result(c2) = Err("Mailbox") /\ comps[c2].file = None

====
